---- MODULE Spec2Model ----
(***************************************************************************)
(* Model of pubnub/pubnub.py: the synchronous request path (request_sync),  *)
(* the threaded asynchronous path (request_async, AsyncHTTPClient.run and   *)
(* the Call handle) and the request executor pn_request they share.         *)
(***************************************************************************)
EXTENDS Integers, Sequences, FiniteSets, TLC

\* ---------------------------------------------------------------- bounds
NCalls == 2
MaxCancels == 2
MaxRun == 17

Calls == 1..NCalls

\* ------------------------------------------------------ Python's None
None == "None"
NoRes == [none |-> "res"]
NoErr == [none |-> "err"]
NoInfo == [none |-> "info"]
NoBody == [none |-> "body"]
NoTransport == [none |-> "transport"]

\* ------------------------------------------------- requests.codes.ok
requests_codes_ok == 200

\* -------------------------------------------------- what the server and
\* the transport can hand back
Statuses == {200, 201, 301, 400, 403, 404, 500, 503}

\* res.text: absent, a JSON document, or text that is not JSON
Texts == {None, "[1]", "Not Found"}

\* res.url as the transport executed it: scheme, host, and the query string
\* as the sequence of its key=value pairs ("" is a blank value)
Urls ==
    { [scheme |-> "https", hostname |-> "ps.pndsn.com",
       query |-> << <<"uuid", "abc">>, <<"auth_key", "k1">> >>],
      [scheme |-> "http", hostname |-> "ps.pndsn.com",
       query |-> << <<"pnsdk", "py">> >>],
      [scheme |-> "http", hostname |-> "localhost",
       query |-> << <<"uuid", "">>, <<"auth_key", "k1">>, <<"auth_key", "k2">> >>] }

Responses ==
    [status_code : Statuses, text : Texts, url : Urls, request : {"PreparedRequest"}]

\* Exception classes session.request can raise, each with the classes it is
\* an instance of (requests.exceptions: ConnectTimeout derives from both
\* ConnectionError and Timeout).
ExcClasses ==
    {"ConnectionError", "SSLError", "ConnectTimeout", "ReadTimeout", "Timeout",
     "HTTPError", "TooManyRedirects", "RequestException", "ValueError"}

Bases(exc) ==
    CASE exc = "ConnectionError"  -> {"ConnectionError", "RequestException", "Exception"}
      [] exc = "SSLError"         -> {"SSLError", "ConnectionError", "RequestException", "Exception"}
      [] exc = "ConnectTimeout"   -> {"ConnectTimeout", "ConnectionError", "Timeout",
                                      "RequestException", "Exception"}
      [] exc = "ReadTimeout"      -> {"ReadTimeout", "Timeout", "RequestException", "Exception"}
      [] exc = "Timeout"          -> {"Timeout", "RequestException", "Exception"}
      [] exc = "HTTPError"        -> {"HTTPError", "RequestException", "Exception"}
      [] exc = "TooManyRedirects" -> {"TooManyRedirects", "RequestException", "Exception"}
      [] exc = "RequestException" -> {"RequestException", "Exception"}
      [] exc = "PubNubSubclass"   -> {"PubNubSubclass", "PubNubException", "Exception"}
      [] OTHER                    -> {exc, "Exception"}

IsInstance(exc, cls) == cls \in Bases(exc)

\* One outcome of session.request(**args): a response or a raised exception
TransportOutcomes ==
    [type : {"response"}, res : Responses, exc : {None}]
        \cup [type : {"raise"}, res : {NoRes}, exc : ExcClasses]

\* ------------------------------------------------------------ errors.py
PNERR_CONNECTION_ERROR == "PNERR_CONNECTION_ERROR"
PNERR_HTTP_ERROR == "PNERR_HTTP_ERROR"
PNERR_CLIENT_TIMEOUT == "PNERR_CLIENT_TIMEOUT"
PNERR_TOO_MANY_REDIRECTS_ERROR == "PNERR_TOO_MANY_REDIRECTS_ERROR"
PNERR_UNKNOWN_ERROR == "PNERR_UNKNOWN_ERROR"
PNERR_SERVER_ERROR == "PNERR_SERVER_ERROR"
PNERR_CLIENT_ERROR == "PNERR_CLIENT_ERROR"

TransportErrorKinds ==
    {PNERR_CONNECTION_ERROR, PNERR_HTTP_ERROR, PNERR_CLIENT_TIMEOUT,
     PNERR_TOO_MANY_REDIRECTS_ERROR, PNERR_UNKNOWN_ERROR}

\* PubNubException(pn_error=..., errormsg=..., status_code=...); status_code
\* is 0 when the constructor is not given one.  type is type(e).
PubNubException(pn_error, errormsg, status_code) ==
    [type |-> "PubNubException", pn_error |-> pn_error, errormsg |-> errormsg,
     status_code |-> status_code]

\* An exception object of any other class
Exception(cls) ==
    [type |-> cls, pn_error |-> None, errormsg |-> "", status_code |-> 0]

\* str(e) of a transport exception
Str(exc) == "str(" \o exc \o ")"

\* ------------------------------------------------------------ pn_request
\* The except clauses of pn_request, tried in source order; None when no
\* clause matches and the exception leaves pn_request as it is.
ExceptClauseKind_NoCatchAll(exc) ==
    IF IsInstance(exc, "ConnectionError") THEN PNERR_CONNECTION_ERROR
    ELSE IF IsInstance(exc, "HTTPError") THEN PNERR_HTTP_ERROR
    ELSE IF IsInstance(exc, "Timeout") THEN PNERR_CLIENT_TIMEOUT
    ELSE IF IsInstance(exc, "TooManyRedirects") THEN PNERR_TOO_MANY_REDIRECTS_ERROR
    ELSE None

ExceptClauseKind(exc) ==
    IF IsInstance(exc, "ConnectionError") THEN PNERR_CONNECTION_ERROR
    ELSE IF IsInstance(exc, "HTTPError") THEN PNERR_HTTP_ERROR
    ELSE IF IsInstance(exc, "Timeout") THEN PNERR_CLIENT_TIMEOUT
    ELSE IF IsInstance(exc, "TooManyRedirects") THEN PNERR_TOO_MANY_REDIRECTS_ERROR
    ELSE IF IsInstance(exc, "Exception") THEN PNERR_UNKNOWN_ERROR
    ELSE None

\* What leaves a try block in which exception exc was raised
Raised(exc) ==
    IF ExceptClauseKind(exc) = None
    THEN [out |-> "raise_raw", res |-> NoRes, err |-> NoErr, exc |-> exc]
    ELSE [out |-> "raise_pn", res |-> NoRes,
          err |-> PubNubException(ExceptClauseKind(exc), Str(exc), 0), exc |-> None]

\* The body of pn_request from the try on: t is what session.request does,
\* logOk whether logger.debug("GOT %s" % res.text), which is inside the try,
\* runs through; a failure there is an exception like any other in the try.
PnRequestTry(t, logOk) ==
    IF t.type = "raise" THEN Raised(t.exc)
    ELSE IF ~logOk THEN Raised("LoggingError")
    ELSE [out |-> "return", res |-> t.res, err |-> NoErr, exc |-> None]

\* pn_request as a whole: preLogOk is whether the logger.debug call before
\* the try runs through; it is outside the try, so its failure leaves
\* pn_request unconverted.
PnRequest(preLogOk, t, logOk) ==
    IF ~preLogOk
    THEN [out |-> "raise_raw", res |-> NoRes, err |-> NoErr, exc |-> "LoggingError"]
    ELSE PnRequestTry(t, logOk)

\* ---------------------------------------------------------- request_sync
\* "if res.status_code != requests.codes.ok"
IsHttpError(status_code) == status_code # requests_codes_ok

\* "if res.text is None: text = 'N/A' else: text = res.text"
SyncText(text) == IF text = None THEN "N/A" ELSE text

\* "if res.status_code >= 500: err = PNERR_SERVER_ERROR else: PNERR_CLIENT_ERROR"
SyncErr_Strict(status_code) ==
    IF status_code > 500 THEN PNERR_SERVER_ERROR ELSE PNERR_CLIENT_ERROR

SyncErr(status_code) ==
    IF status_code >= 500 THEN PNERR_SERVER_ERROR ELSE PNERR_CLIENT_ERROR

\* request_sync after pn_request has produced r
RequestSyncResult(r) ==
    IF r.out # "return" THEN r
    ELSE IF IsHttpError(r.res.status_code)
    THEN [out |-> "raise_pn", res |-> NoRes,
          err |-> PubNubException(SyncErr(r.res.status_code), SyncText(r.res.text),
                                  r.res.status_code),
          exc |-> None]
    ELSE r

\* -------------------------------------------------------- PNStatusCategory
PNUnknownCategory == "PNUnknownCategory"
PNAccessDeniedCategory == "PNAccessDeniedCategory"
PNBadRequestCategory == "PNBadRequestCategory"
PNTimeoutCategory == "PNTimeoutCategory"
PNUnexpectedDisconnectCategory == "PNUnexpectedDisconnectCategory"

\* ------------------------------------------------------- success_callback
\* utils.parse_qs: the non-blank values of each key, in order of appearance
QueryValues(q, k) ==
    LET hits == SelectSeq(q, LAMBDA p : p[1] = k /\ p[2] # "")
    IN  [i \in 1..Len(hits) |-> hits[i][2]]

parse_qs(q) ==
    LET keys == {q[i][1] : i \in {j \in 1..Len(q) : q[j][2] # ""}}
    IN  [k \in keys |-> QueryValues(q, k)]

\* "if 'uuid' in query and len(query['uuid']) > 0: uuid = query['uuid'][0]"
FirstValue_Last(query, k) ==
    IF k \in DOMAIN query /\ Len(query[k]) > 0 THEN query[k][Len(query[k])] ELSE None

FirstValue(query, k) ==
    IF k \in DOMAIN query /\ Len(query[k]) > 0 THEN query[k][1] ELSE None

ResponseInfo(res) ==
    LET query == parse_qs(res.url.query)
    IN  [status_code |-> res.status_code,
         tls_enabled |-> ("https" = res.url.scheme),
         origin |-> res.url.hostname,
         uuid |-> FirstValue(query, "uuid"),
         auth_key |-> FirstValue(query, "auth_key"),
         client_request |-> res.request]

\* status_category of success_callback
SuccessCategory_Swapped(status_code) ==
    IF status_code = 400 THEN PNAccessDeniedCategory
    ELSE IF status_code = 403 THEN PNBadRequestCategory
    ELSE PNUnknownCategory

SuccessCategory(status_code) ==
    IF ~IsHttpError(status_code) THEN PNUnknownCategory
    ELSE IF status_code = 400 THEN PNBadRequestCategory
    ELSE IF status_code = 403 THEN PNAccessDeniedCategory
    ELSE PNUnknownCategory

SuccessText(text) == IF text = None THEN "N/A" ELSE text

SuccessErr(status_code) ==
    IF status_code >= 500 THEN PNERR_SERVER_ERROR ELSE PNERR_CLIENT_ERROR

\* The error argument success_callback passes
SuccessError(res) ==
    IF IsHttpError(res.status_code)
    THEN PubNubException(SuccessErr(res.status_code), SuccessText(res.text), res.status_code)
    ELSE NoErr

\* res.json(): the parsed document, or ValueError when the body is absent
\* or is not JSON
JsonParses(text) == text \in {"[1]"}

Json(text) == [type |-> "list", items |-> <<1>>]

\* --------------------------------------------------------- error_callback
\* "if not type(e) is PubNubException: raise e"
TypeIsPubNubException_Any(e) == TRUE

TypeIsPubNubException(e) == e.type = "PubNubException"

ErrorCategory_Default(pn_error) == PNBadRequestCategory

ErrorCategory(pn_error) ==
    IF pn_error = PNERR_CONNECTION_ERROR THEN PNUnexpectedDisconnectCategory
    ELSE IF pn_error = PNERR_CLIENT_TIMEOUT THEN PNTimeoutCategory
    ELSE PNBadRequestCategory

\* ---------------------------------------------------------------- crypto.py
\* Strings are sequences of code points, byte strings sequences of bytes.
block_size == 16

\* msg.encode('utf-8'), for code points below 2048
RECURSIVE Utf8Encode(_)
Utf8Encode(str) ==
    IF str = <<>> THEN <<>>
    ELSE LET ch == Head(str)
         IN  (IF ch < 128 THEN <<ch>> ELSE <<192 + (ch \div 64), 128 + (ch % 64)>>)
                 \o Utf8Encode(Tail(str))

\* bytes.decode('utf-8')
RECURSIVE Utf8Decode(_)
Utf8Decode(bytes) ==
    IF bytes = <<>> THEN <<>>
    ELSE IF Head(bytes) < 128 THEN <<Head(bytes)>> \o Utf8Decode(Tail(bytes))
    ELSE <<(Head(bytes) - 192) * 64 + (bytes[2] - 128)>> \o Utf8Decode(Tail(Tail(bytes)))

\* pad: "padding = block_size - (len(msg) % block_size)";
\* "msg + (chr(padding) * padding).encode('utf-8')"
pad_NoFullBlock(msg) ==
    LET padding == (block_size - (Len(msg) % block_size)) % block_size
    IN  msg \o [i \in 1..padding |-> padding]

pad(msg) ==
    LET padding == block_size - (Len(msg) % block_size)
    IN  msg \o [i \in 1..padding |-> padding]

\* depad: "msg[0:-ord(msg[-1])]" (a slice: empty when the count is 0 or
\* exceeds the length)
depad(msg) ==
    LET n == msg[Len(msg)]
    IN  IF n = 0 \/ n >= Len(msg) THEN <<>> ELSE SubSeq(msg, 1, Len(msg) - n)

\* get_secret(key)[0:32]: the cipher key derived from key; the keys of the
\* model and a number standing for each digest
Keys == {"enigma", "other", "k3"}

get_secret(key) ==
    CASE key = "enigma" -> 7
      [] key = "other" -> 200
      [] OTHER -> 91

\* AES.new(secret, AES.MODE_CBC, Initial16bytes).encrypt / .decrypt: a keyed
\* bijection on byte strings and its inverse
cipher_encrypt(secret, bytes) == [i \in 1..Len(bytes) |-> (bytes[i] + secret + i) % 256]

cipher_decrypt(secret, bytes) == [i \in 1..Len(bytes) |-> (bytes[i] + 512 - secret - i) % 256]

\* encodebytes(...).decode('utf-8').replace("\n", "") and
\* decodebytes(msg.encode('utf-8')): a text encoding of bytes and its inverse
\* (two symbols for each byte)
RECURSIVE encodebytes(_)
encodebytes(bytes) ==
    IF bytes = <<>> THEN <<>>
    ELSE <<65 + (Head(bytes) \div 16), 65 + (Head(bytes) % 16)>> \o encodebytes(Tail(bytes))

RECURSIVE decodebytes(_)
decodebytes(text) ==
    IF text = <<>> THEN <<>>
    ELSE <<(text[1] - 65) * 16 + (text[2] - 65)>> \o decodebytes(Tail(Tail(text)))

\* encrypt(key, msg), Python 3 branch
encrypt(key, msg) ==
    encodebytes(cipher_encrypt(get_secret(key), pad(Utf8Encode(msg))))

\* json.loads on the texts of the model: an integer literal, or a list of one
\* integer literal; everything else raises JSONDecodeError
IsDigit(ch) == ch >= 48 /\ ch <= 57

IsIntLiteral(str) ==
    /\ Len(str) >= 1
    /\ \A i \in 1..Len(str) : IsDigit(str[i])
    /\ Len(str) > 1 => str[1] # 48

RECURSIVE IntValue(_)
IntValue(str) ==
    IF str = <<>> THEN 0
    ELSE IntValue(SubSeq(str, 1, Len(str) - 1)) * 10 + (str[Len(str)] - 48)

IsListLiteral(str) ==
    /\ Len(str) >= 3
    /\ str[1] = 91
    /\ str[Len(str)] = 93
    /\ IsIntLiteral(SubSeq(str, 2, Len(str) - 1))

json_loads_raises(str) == ~IsIntLiteral(str) /\ ~IsListLiteral(str)

json_loads(str) ==
    IF IsIntLiteral(str) THEN [type |-> "int", value |-> <<IntValue(str)>>]
    ELSE [type |-> "list", value |-> <<IntValue(SubSeq(str, 2, Len(str) - 1))>>]

\* decrypt(key, msg), Python 3 branch: "try: return json.loads(plain)
\* except (JSONDecodeError, SyntaxError): return plain"
decrypt(key, msg) ==
    LET plain == depad(Utf8Decode(cipher_decrypt(get_secret(key), decodebytes(msg))))
    IN  IF json_loads_raises(plain) THEN [type |-> "str", value |-> plain]
        ELSE json_loads(plain)

\* The plaintexts of the model: runs of "a" up to MaxRun long, texts that are
\* JSON, texts that are nearly JSON, and texts with a two-byte character
Run(n) == [i \in 1..n |-> 97]

Plaintexts ==
    {Run(n) : n \in 0..MaxRun}
        \cup { <<49, 50, 51>>, <<91, 49, 93>>, <<55>>, <<48, 49>>, <<49, 97>>, <<91, 49>>,
               <<233>>, <<233>> \o Run(14), <<233>> \o Run(15) }

\* ------------------------------------------------------------------ state
VARIABLES
    pc,             \* per call: where its background thread is in run()
    event,          \* per call: cancellation_event.isSet()
    is_canceled,    \* Call.is_canceled
    is_executed,    \* Call.is_executed
    res,            \* run(): the response pn_request returned
    err,            \* run(): the PubNubException caught by "except"
    uncaught,       \* the exception that left run(), if one did
    invocations,    \* per call: the calls made to the caller's callback
    transport,      \* per call: what session.request did (history)
    eventAtBegin,   \* per call: isSet() when pn_request was entered (history)
    eventAtReturn,  \* per call: isSet() when pn_request came back (history)
    cancelPc,       \* per call: inside Call.cancel() or not
    cancels,        \* per call: completed Call.cancel() calls
    joined,         \* per call: Call.join() has returned
    syncPc,         \* request_sync: idle, inflight or done
    syncTransport,  \* request_sync: what session.request did (history)
    syncRes,        \* request_sync: the response pn_request returned
    syncOut,        \* request_sync: what it returned or raised
    cryptoPc,       \* crypto.py: where the encrypt / decrypt round trip is
    cryptoKey,      \* crypto.py: key
    cryptoMsg,      \* crypto.py: msg handed to encrypt
    cryptoData,     \* crypto.py: what encrypt returned
    cryptoOut       \* crypto.py: what decrypt returned

callVars == <<pc, event, is_canceled, is_executed, res, err, uncaught,
              invocations, transport, eventAtBegin, eventAtReturn>>
callerVars == <<cancelPc, cancels, joined>>
syncVars == <<syncPc, syncTransport, syncRes, syncOut>>
cryptoVars == <<cryptoPc, cryptoKey, cryptoMsg, cryptoData, cryptoOut>>
vars == <<pc, event, is_canceled, is_executed, res, err, uncaught, invocations,
          transport, eventAtBegin, eventAtReturn, cancelPc, cancels, joined,
          syncPc, syncTransport, syncRes, syncOut,
          cryptoPc, cryptoKey, cryptoMsg, cryptoData, cryptoOut>>

NoOut == [none |-> "out"]

Init ==
    /\ pc = [c \in Calls |-> "unstarted"]
    /\ event = [c \in Calls |-> FALSE]
    /\ is_canceled = [c \in Calls |-> FALSE]
    /\ is_executed = [c \in Calls |-> FALSE]
    /\ res = [c \in Calls |-> NoRes]
    /\ err = [c \in Calls |-> NoErr]
    /\ uncaught = [c \in Calls |-> None]
    /\ invocations = [c \in Calls |-> <<>>]
    /\ transport = [c \in Calls |-> NoTransport]
    /\ eventAtBegin = [c \in Calls |-> FALSE]
    /\ eventAtReturn = [c \in Calls |-> FALSE]
    /\ cancelPc = [c \in Calls |-> "idle"]
    /\ cancels = [c \in Calls |-> 0]
    /\ joined = [c \in Calls |-> FALSE]
    /\ syncPc = "idle"
    /\ syncTransport = NoTransport
    /\ syncRes = NoRes
    /\ syncOut = NoOut
    /\ cryptoPc = "idle"
    /\ cryptoKey = None
    /\ cryptoMsg = <<>>
    /\ cryptoData = <<>>
    /\ cryptoOut = NoOut

\* What the caller's callback can do when it is called: return, raise a
\* PubNubException of its own, raise an instance of a subclass of
\* PubNubException, or raise something else
CallbackResults ==
    [does : {"return"}, raises : {NoErr}]
        \cup [does : {"raise_pn"},
              raises : {PubNubException(k, "raised by callback", 0) :
                            k \in {PNERR_CONNECTION_ERROR, PNERR_UNKNOWN_ERROR}}]
        \cup [does : {"raise_pn_subclass"},
              raises : {[PubNubException(PNERR_UNKNOWN_ERROR, "raised by callback", 0)
                            EXCEPT !.type = "PubNubSubclass"]}]
        \cup [does : {"raise_other"}, raises : {Exception("CallbackError")}]

\* run(): "except PubNubException as e" catches e
RunCatches(e) == IsInstance(e.type, "PubNubException")

Terminated(c) == pc[c] \in {"done", "crashed"}

\* Call.thread is a Thread (request_async has set it) and not None
ThreadSet(c) == pc[c] # "unstarted"

\* ---------------------------------------------------------- request_async
\* Creates the Call and starts the thread on client.run; the Call is new, so
\* nobody has joined it
RequestAsync_Executed(c) ==
    /\ pc[c] = "unstarted"
    /\ ~joined[c]
    /\ pc' = [pc EXCEPT ![c] = "start"]
    /\ is_executed' = [is_executed EXCEPT ![c] = TRUE]
    /\ UNCHANGED <<event, is_canceled, res, err, uncaught, invocations,
                   transport, eventAtBegin, eventAtReturn, callerVars, syncVars, cryptoVars>>

RequestAsync(c) ==
    /\ pc[c] = "unstarted"
    /\ ~joined[c]
    /\ pc' = [pc EXCEPT ![c] = "start"]
    /\ UNCHANGED <<event, is_canceled, is_executed, res, err, uncaught, invocations,
                   transport, eventAtBegin, eventAtReturn, callerVars, syncVars, cryptoVars>>

\* ------------------------------------------------------ AsyncHTTPClient.run
\* run() enters pn_request: the logging before the try, then session.request
\* is under way
PnRequestBegin(c) ==
    /\ pc[c] = "start"
    /\ eventAtBegin' = [eventAtBegin EXCEPT ![c] = event[c]]
    /\ \E preLogOk \in BOOLEAN :
        IF preLogOk
        THEN /\ pc' = [pc EXCEPT ![c] = "inflight"]
             /\ UNCHANGED uncaught
        ELSE /\ ~RunCatches(Exception(PnRequest(FALSE, NoTransport, TRUE).exc))
             /\ pc' = [pc EXCEPT ![c] = "crashed"]
             /\ uncaught' = [uncaught EXCEPT ![c] = PnRequest(FALSE, NoTransport, TRUE).exc]
    /\ UNCHANGED <<event, is_canceled, is_executed, res, err, invocations, transport,
                   eventAtReturn, callerVars, syncVars, cryptoVars>>

\* session.request comes back and pn_request returns or raises into run()
PnRequestEnd(c, outcomes) ==
    /\ pc[c] = "inflight"
    /\ \E t \in outcomes, logOk \in BOOLEAN :
        LET r == PnRequest(TRUE, t, logOk)
        IN  /\ transport' = [transport EXCEPT ![c] = t]
            /\ eventAtReturn' = [eventAtReturn EXCEPT ![c] = event[c]]
            /\ res' = [res EXCEPT ![c] = r.res]
            /\ CASE r.out = "return" ->
                        /\ pc' = [pc EXCEPT ![c] = "check"]
                        /\ UNCHANGED <<err, uncaught>>
                 [] r.out = "raise_pn" ->
                        /\ pc' = [pc EXCEPT ![c] = "error"]
                        /\ err' = [err EXCEPT ![c] = r.err]
                        /\ UNCHANGED uncaught
                 [] OTHER ->
                        /\ pc' = [pc EXCEPT ![c] = "crashed"]
                        /\ uncaught' = [uncaught EXCEPT ![c] = r.exc]
                        /\ UNCHANGED err
    /\ UNCHANGED <<event, is_canceled, is_executed, invocations, eventAtBegin,
                   callerVars, syncVars, cryptoVars>>

\* "if self.cancellation_event.isSet(): return"
CheckCancelled_NoCheck(c) ==
    /\ pc[c] = "check"
    /\ pc' = [pc EXCEPT ![c] = "success"]
    /\ UNCHANGED <<event, is_canceled, is_executed, res, err, uncaught, invocations,
                   transport, eventAtBegin, eventAtReturn, callerVars, syncVars, cryptoVars>>

CheckCancelled(c) ==
    /\ pc[c] = "check"
    /\ pc' = [pc EXCEPT ![c] = IF event[c] THEN "done" ELSE "success"]
    /\ UNCHANGED <<event, is_canceled, is_executed, res, err, uncaught, invocations,
                   transport, eventAtBegin, eventAtReturn, callerVars, syncVars, cryptoVars>>

\* self.success(res) up to and including the call of the caller's callback.
\* res.json() is evaluated before the callback is called; an exception of the
\* callback that is a PubNubException is caught by run()'s except clause.
SuccessCallback(c) ==
    /\ pc[c] = "success"
    /\ IF ~JsonParses(res[c].text)
       THEN /\ ~RunCatches(Exception("ValueError"))
            /\ pc' = [pc EXCEPT ![c] = "crashed"]
            /\ uncaught' = [uncaught EXCEPT ![c] = "ValueError"]
            /\ UNCHANGED <<err, invocations>>
       ELSE \E cb \in CallbackResults :
            /\ invocations' = [invocations EXCEPT ![c] = Append(@,
                    [via |-> "success_callback",
                     status_category |-> SuccessCategory(res[c].status_code),
                     body |-> Json(res[c].text),
                     response_info |-> ResponseInfo(res[c]),
                     error |-> SuccessError(res[c]),
                     does |-> cb.does])]
            /\ IF cb.does = "return"
               THEN /\ pc' = [pc EXCEPT ![c] = "executed_cb"]
                    /\ UNCHANGED <<err, uncaught>>
               ELSE IF RunCatches(cb.raises)
               THEN /\ pc' = [pc EXCEPT ![c] = "error"]
                    /\ err' = [err EXCEPT ![c] = cb.raises]
                    /\ UNCHANGED uncaught
               ELSE /\ pc' = [pc EXCEPT ![c] = "crashed"]
                    /\ uncaught' = [uncaught EXCEPT ![c] = cb.raises.type]
                    /\ UNCHANGED err
    /\ UNCHANGED <<event, is_canceled, is_executed, res, transport, eventAtBegin, eventAtReturn,
                   callerVars, syncVars, cryptoVars>>

\* self.error(e) up to and including the call of the caller's callback; it
\* runs inside the except clause, so nothing the callback raises is caught.
ErrorCallback(c) ==
    /\ pc[c] = "error"
    /\ IF ~TypeIsPubNubException(err[c])
       THEN /\ pc' = [pc EXCEPT ![c] = "crashed"]
            /\ uncaught' = [uncaught EXCEPT ![c] = err[c].type]
            /\ UNCHANGED invocations
       ELSE \E cb \in CallbackResults :
            /\ invocations' = [invocations EXCEPT ![c] = Append(@,
                    [via |-> "error_callback",
                     status_category |-> ErrorCategory(err[c].pn_error),
                     body |-> NoBody,
                     response_info |-> NoInfo,
                     error |-> err[c],
                     does |-> cb.does])]
            /\ IF cb.does = "return"
               THEN /\ pc' = [pc EXCEPT ![c] = "executed_cb"]
                    /\ UNCHANGED uncaught
               ELSE /\ pc' = [pc EXCEPT ![c] = "crashed"]
                    /\ uncaught' = [uncaught EXCEPT ![c] = cb.raises.type]
    /\ UNCHANGED <<event, is_canceled, is_executed, res, err, transport, eventAtBegin, eventAtReturn,
                   callerVars, syncVars, cryptoVars>>

\* call.executed_cb(), after the callback has returned
ExecutedCb(c) ==
    /\ pc[c] = "executed_cb"
    /\ is_executed' = [is_executed EXCEPT ![c] = TRUE]
    /\ pc' = [pc EXCEPT ![c] = "done"]
    /\ UNCHANGED <<event, is_canceled, res, err, uncaught, invocations, transport,
                   eventAtBegin, eventAtReturn, callerVars, syncVars, cryptoVars>>

\* --------------------------------------------------------------------- Call
\* Call.cancel(), first statement: self.cancellation_event.set()
CancelSet_AllEvents(c) ==
    /\ pc[c] # "unstarted"
    /\ cancelPc[c] = "idle"
    /\ cancels[c] < MaxCancels
    /\ event' = [d \in Calls |-> TRUE]
    /\ cancelPc' = [cancelPc EXCEPT ![c] = "set"]
    /\ UNCHANGED <<pc, is_canceled, is_executed, res, err, uncaught, invocations,
                   transport, eventAtBegin, eventAtReturn, cancels, joined, syncVars, cryptoVars>>

CancelSet(c) ==
    /\ pc[c] # "unstarted"
    /\ cancelPc[c] = "idle"
    /\ cancels[c] < MaxCancels
    /\ event' = [event EXCEPT ![c] = TRUE]
    /\ cancelPc' = [cancelPc EXCEPT ![c] = "set"]
    /\ UNCHANGED <<pc, is_canceled, is_executed, res, err, uncaught, invocations,
                   transport, eventAtBegin, eventAtReturn, cancels, joined, syncVars, cryptoVars>>

\* Call.cancel(), second statement: self.is_canceled = True
CancelMark_Toggle(c) ==
    /\ cancelPc[c] = "set"
    /\ is_canceled' = [is_canceled EXCEPT ![c] = ~@]
    /\ cancelPc' = [cancelPc EXCEPT ![c] = "idle"]
    /\ cancels' = [cancels EXCEPT ![c] = @ + 1]
    /\ UNCHANGED <<pc, event, is_executed, res, err, uncaught, invocations,
                   transport, eventAtBegin, eventAtReturn, joined, syncVars, cryptoVars>>

CancelMark(c) ==
    /\ cancelPc[c] = "set"
    /\ is_canceled' = [is_canceled EXCEPT ![c] = TRUE]
    /\ cancelPc' = [cancelPc EXCEPT ![c] = "idle"]
    /\ cancels' = [cancels EXCEPT ![c] = @ + 1]
    /\ UNCHANGED <<pc, event, is_executed, res, err, uncaught, invocations,
                   transport, eventAtBegin, eventAtReturn, joined, syncVars, cryptoVars>>

\* Call.join(): thread.join() returns once the thread has terminated; when
\* self.thread is not a Thread, join() returns at once
Join_NoWait(c) ==
    /\ ~joined[c]
    /\ joined' = [joined EXCEPT ![c] = TRUE]
    /\ UNCHANGED <<callVars, cancelPc, cancels, syncVars, cryptoVars>>

Join(c) ==
    /\ ThreadSet(c) => Terminated(c)
    /\ ~joined[c]
    /\ joined' = [joined EXCEPT ![c] = TRUE]
    /\ UNCHANGED <<callVars, cancelPc, cancels, syncVars, cryptoVars>>

\* ------------------------------------------------------------- request_sync
\* request_sync enters pn_request
SyncBegin ==
    /\ syncPc = "idle"
    /\ \E preLogOk \in BOOLEAN :
        IF preLogOk
        THEN /\ syncPc' = "inflight"
             /\ UNCHANGED syncOut
        ELSE /\ syncPc' = "done"
             /\ syncOut' = RequestSyncResult(PnRequest(FALSE, NoTransport, TRUE))
    /\ UNCHANGED <<callVars, callerVars, cryptoVars, syncTransport, syncRes>>

\* pn_request comes back and request_sync returns or raises
SyncEnd(outcomes) ==
    /\ syncPc = "inflight"
    /\ \E t \in outcomes, logOk \in BOOLEAN :
        /\ syncTransport' = t
        /\ syncRes' = PnRequest(TRUE, t, logOk).res
        /\ syncOut' = RequestSyncResult(PnRequest(TRUE, t, logOk))
    /\ syncPc' = "done"
    /\ UNCHANGED <<callVars, callerVars, cryptoVars>>

\* ---------------------------------------------------------------- crypto.py
\* encrypt(key, msg) for some key and plaintext
Encrypt ==
    /\ cryptoPc = "idle"
    /\ \E key \in Keys, msg \in Plaintexts :
        /\ cryptoKey' = key
        /\ cryptoMsg' = msg
        /\ cryptoData' = encrypt(key, msg)
    /\ cryptoPc' = "encrypted"
    /\ UNCHANGED <<callVars, callerVars, syncVars, cryptoOut>>

\* decrypt(key, data) of what encrypt returned
Decrypt ==
    /\ cryptoPc = "encrypted"
    /\ cryptoOut' = decrypt(cryptoKey, cryptoData)
    /\ cryptoPc' = "done"
    /\ UNCHANGED <<callVars, callerVars, syncVars, cryptoKey, cryptoMsg, cryptoData>>

\* ----------------------------------------------------------- specifications
\* One asynchronous call and the caller's use of its handle
Solo == {1}

Next ==
    \E c \in Solo :
        \/ RequestAsync(c)
        \/ PnRequestBegin(c)
        \/ PnRequestEnd(c, TransportOutcomes)
        \/ CheckCancelled(c)
        \/ SuccessCallback(c)
        \/ ErrorCallback(c)
        \/ ExecutedCb(c)
        \/ CancelSet(c)
        \/ CancelMark(c)
        \/ Join(c)

Spec == Init /\ [][Next]_vars

\* The same with the scheduling the code relies on: a started thread keeps
\* running, the round trip comes back, and a join() that can return does
ThreadStep(c) ==
    \/ PnRequestBegin(c)
    \/ PnRequestEnd(c, TransportOutcomes)
    \/ CheckCancelled(c)
    \/ SuccessCallback(c)
    \/ ErrorCallback(c)
    \/ ExecutedCb(c)

SpecLive ==
    /\ Init
    /\ [][Next]_vars
    /\ \A c \in Solo : WF_vars(ThreadStep(c)) /\ WF_vars(Join(c))

\* One synchronous call
NextSync ==
    \/ SyncBegin
    \/ SyncEnd(TransportOutcomes)

SpecSync == Init /\ [][NextSync]_vars

\* A synchronous and an asynchronous call side by side, over every transport
\* failure and one plain response
TransportFailures == [type : {"raise"}, res : {NoRes}, exc : ExcClasses]

PlainResponse ==
    [type |-> "response",
     res |-> [status_code |-> 200, text |-> "[1]",
              url |-> [scheme |-> "http", hostname |-> "ps.pndsn.com",
                       query |-> << <<"pnsdk", "py">> >>],
              request |-> "PreparedRequest"],
     exc |-> None]

FailureOutcomes == TransportFailures \cup {PlainResponse}

NextFailures ==
    \/ \E c \in Solo :
        \/ RequestAsync(c)
        \/ PnRequestBegin(c)
        \/ PnRequestEnd(c, FailureOutcomes)
        \/ CheckCancelled(c)
        \/ SuccessCallback(c)
        \/ ErrorCallback(c)
        \/ ExecutedCb(c)
        \/ CancelSet(c)
        \/ CancelMark(c)
        \/ Join(c)
    \/ SyncBegin
    \/ SyncEnd(FailureOutcomes)

SpecFailures == Init /\ [][NextFailures]_vars

\* ------------------------------------------------------------------ claims
Is2xx(status_code) == status_code >= 200 /\ status_code <= 299

\* The round trip of call c failed and pn_request raised a PubNubException
\* into run()
PnRequestRaised(c) ==
    /\ transport[c] # NoTransport
    /\ transport[c].type = "raise"
    /\ err[c] # NoErr

\* The callback of call c returned every time it was called
CallbackReturns(c) ==
    \A i \in 1..Len(invocations[c]) : invocations[c][i].does = "return"

\* The calls success_callback made to the callback of call c
SuccessInvocations(c) ==
    {i \in 1..Len(invocations[c]) : invocations[c][i].via = "success_callback"}

\* C1: the callback of a call is invoked at most once, whatever the transport
\* does and whatever the callback itself does (a callback that raises a
\* PubNubException included).
C1_CallbackAtMostOnce ==
    \A c \in Calls : Len(invocations[c]) <= 1

\* C2: when the cancellation event is set before the thread enters
\* pn_request, the callback is never invoked, whatever the round trip does,
\* and is_executed is false after join() has returned.
C2_CancelledBeforeRoundTrip ==
    \A c \in Calls :
        (pc[c] \notin {"unstarted", "start"} /\ eventAtBegin[c])
            => /\ invocations[c] = <<>>
               /\ (joined[c] => ~is_executed[c])

\* C3: when the cancellation event is never set and the transport returns a
\* response (any status, any body), the thread does not terminate before it
\* has invoked the callback and set is_executed.  Stated for the calls of
\* the claim whose response pn_request handed to run() and whose callback
\* returns when it is called.
C3_ResponseReachesCallback ==
    \A c \in Calls :
        (Terminated(c) /\ ~event[c] /\ transport[c] # NoTransport
                       /\ transport[c].type = "response"
                       /\ res[c] # NoRes /\ CallbackReturns(c))
            => /\ Len(invocations[c]) >= 1
               /\ is_executed[c]

\* C4: for every 2xx status the callback receives PNUnknownCategory, the
\* parsed body, a ResponseInfo and no error; success_callback passes an error
\* only for a status that is not 2xx.
C4_Every2xxIsSuccess ==
    \A c \in Calls : \A i \in SuccessInvocations(c) :
        LET inv == invocations[c][i]
        IN  /\ Is2xx(res[c].status_code)
                => /\ inv.status_category = PNUnknownCategory
                   /\ inv.body = Json(res[c].text)
                   /\ inv.response_info # NoInfo
                   /\ inv.error = NoErr
            /\ inv.error # NoErr => ~Is2xx(res[c].status_code)

\* C5: success_callback delivers PNAccessDeniedCategory for status 403,
\* PNBadRequestCategory for 400 and PNUnknownCategory for every other non-2xx
\* status; with a non-2xx status the error is PNERR_SERVER_ERROR from 500 on
\* and PNERR_CLIENT_ERROR below, and carries the status code.
C5_StatusClassification ==
    \A c \in Calls : \A i \in SuccessInvocations(c) :
        LET inv == invocations[c][i]
            st == res[c].status_code
        IN  /\ st = 403 => inv.status_category = PNAccessDeniedCategory
            /\ st = 400 => inv.status_category = PNBadRequestCategory
            /\ (~Is2xx(st) /\ st \notin {400, 403})
                    => inv.status_category = PNUnknownCategory
            /\ ~Is2xx(st)
                    => /\ inv.error # NoErr
                       /\ st >= 500 => inv.error.pn_error = PNERR_SERVER_ERROR
                       /\ st < 500 => inv.error.pn_error = PNERR_CLIENT_ERROR
                       /\ inv.error.status_code = st

C5_Witness ==
    \E c \in Calls :
        /\ 1 \in SuccessInvocations(c)
        /\ res[c].status_code = 403
        /\ invocations[c][1].status_category = PNAccessDeniedCategory
        /\ invocations[c][1].error.pn_error = PNERR_CLIENT_ERROR
        /\ is_executed[c]

\* C6: request_sync returns the response pn_request gave it exactly when the
\* status is 2xx, and raises a PubNubException for every other status.
C6_SyncReturnsIff2xx ==
    (syncPc = "done" /\ syncRes # NoRes)
        => /\ Is2xx(syncRes.status_code)
                <=> (syncOut.out = "return" /\ syncOut.res = syncRes)
           /\ ~Is2xx(syncRes.status_code) => syncOut.out = "raise_pn"

\* C7: request_sync raises PNERR_SERVER_ERROR for a status from 500 on and
\* PNERR_CLIENT_ERROR for a status from 400 to 499; the exception carries the
\* status code and the body text as its message, "N/A" when the text is absent.
C7_SyncErrorKinds ==
    (syncPc = "done" /\ syncRes # NoRes /\ syncRes.status_code >= 400)
        => /\ syncOut.out = "raise_pn"
           /\ syncRes.status_code >= 500 => syncOut.err.pn_error = PNERR_SERVER_ERROR
           /\ syncRes.status_code < 500 => syncOut.err.pn_error = PNERR_CLIENT_ERROR
           /\ syncOut.err.status_code = syncRes.status_code
           /\ syncRes.text # None => syncOut.err.errormsg = syncRes.text
           /\ syncRes.text = None => syncOut.err.errormsg = "N/A"

C7_Witness ==
    /\ syncPc = "done"
    /\ syncRes # NoRes
    /\ syncRes.status_code = 404
    /\ syncRes.text = "Not Found"
    /\ syncOut.out = "raise_pn"
    /\ syncOut.err = PubNubException(PNERR_CLIENT_ERROR, "Not Found", 404)

\* C8: every exception session.request raises leaves pn_request as one
\* PubNubException of a transport kind; no response is returned and the raw
\* exception does not escape.
C8_TransportExceptionsConverted ==
    (syncPc = "done" /\ syncTransport # NoTransport /\ syncTransport.type = "raise")
        => /\ syncOut.out = "raise_pn"
           /\ syncOut.err.pn_error \in TransportErrorKinds
           /\ syncOut.exc = None
           /\ syncOut.res = NoRes
           /\ syncRes = NoRes
           /\ (\A cls \in {"ConnectionError", "HTTPError", "Timeout", "TooManyRedirects"} :
                    ~IsInstance(syncTransport.exc, cls))
                => syncOut.err.pn_error = PNERR_UNKNOWN_ERROR

C8_Witness ==
    /\ syncPc = "done"
    /\ syncTransport # NoTransport
    /\ syncTransport.type = "raise"
    /\ syncTransport.exc = "ValueError"
    /\ syncOut.out = "raise_pn"
    /\ syncOut.err.pn_error = PNERR_UNKNOWN_ERROR

\* C9: on the synchronous and on the asynchronous path, a transport failure
\* that is a timeout (connect or read) gives PNERR_CLIENT_TIMEOUT and a
\* connection failure gives PNERR_CONNECTION_ERROR.
KindClaimed(exc, pn_error) ==
    /\ IsInstance(exc, "Timeout") => pn_error = PNERR_CLIENT_TIMEOUT
    /\ (IsInstance(exc, "ConnectionError") /\ ~IsInstance(exc, "Timeout"))
            => pn_error = PNERR_CONNECTION_ERROR

C9_TimeoutAndConnectionKinds ==
    /\ (syncPc = "done" /\ syncTransport # NoTransport /\ syncTransport.type = "raise")
            => /\ syncOut.out = "raise_pn"
               /\ KindClaimed(syncTransport.exc, syncOut.err.pn_error)
    /\ \A c \in Calls :
            (transport[c] # NoTransport /\ transport[c].type = "raise")
                => /\ err[c] # NoErr
                   /\ KindClaimed(transport[c].exc, err[c].pn_error)

\* C10 as claimed: when pn_request raises a PubNubException into run(), the
\* callback is invoked with (category, None, None, the error),
\* PNUnexpectedDisconnectCategory for PNERR_CONNECTION_ERROR, PNTimeoutCategory
\* for PNERR_CLIENT_TIMEOUT and PNBadRequestCategory otherwise, and
\* is_executed is true afterwards.
ErrorDelivery(c) ==
    /\ Len(invocations[c]) = 1
    /\ invocations[c][1].body = NoBody
    /\ invocations[c][1].response_info = NoInfo
    /\ invocations[c][1].error = err[c]
    /\ err[c].pn_error = PNERR_CONNECTION_ERROR
            => invocations[c][1].status_category = PNUnexpectedDisconnectCategory
    /\ err[c].pn_error = PNERR_CLIENT_TIMEOUT
            => invocations[c][1].status_category = PNTimeoutCategory
    /\ err[c].pn_error \notin {PNERR_CONNECTION_ERROR, PNERR_CLIENT_TIMEOUT}
            => invocations[c][1].status_category = PNBadRequestCategory

NextCrypto ==
    \/ Encrypt
    \/ Decrypt

SpecCrypto == Init /\ [][NextCrypto]_vars

\* C20 as claimed: decrypt(key, encrypt(key, msg)) returns msg itself, for
\* every key and every plaintext, plaintexts that are JSON text included.
C20_Original ==
    cryptoPc = "done" => cryptoOut = [type |-> "str", value |-> cryptoMsg]

\* C20 as amended: decrypt(key, encrypt(key, msg)) returns msg itself when
\* msg is not JSON text, and the value json.loads gives for msg when it is;
\* the padded length is a multiple of 16 with 1 to 16 bytes appended.
C20_RoundTrip ==
    /\ cryptoPc = "done" =>
            /\ (~IsIntLiteral(cryptoMsg) /\ ~IsListLiteral(cryptoMsg))
                    => cryptoOut = [type |-> "str", value |-> cryptoMsg]
            /\ IsIntLiteral(cryptoMsg)
                    => cryptoOut = [type |-> "int", value |-> <<IntValue(cryptoMsg)>>]
            /\ IsListLiteral(cryptoMsg)
                    => /\ cryptoOut.type = "list"
                       /\ cryptoOut # [type |-> "str", value |-> cryptoMsg]
    /\ cryptoPc # "idle" =>
            LET n == Len(Utf8Encode(cryptoMsg))
                padded == Len(cryptoData) \div 2
            IN  /\ padded % 16 = 0
                /\ padded - n >= 1
                /\ padded - n <= 16

C20_Witness ==
    /\ cryptoPc = "done"
    /\ Len(cryptoMsg) = 16
    /\ cryptoOut = [type |-> "str", value |-> cryptoMsg]

\* C11: when the cancellation event is set at the moment pn_request returns a
\* response to run(), the thread exits without invoking the callback and
\* is_executed stays false from then on.
C11_SetAtReturnSuppresses ==
    \A c \in Calls :
        (res[c] # NoRes /\ eventAtReturn[c])
            => /\ pc[c] \in {"check", "done"}
               /\ invocations[c] = <<>>
               /\ ~is_executed[c]

C11_Witness ==
    \E c \in Calls :
        /\ res[c] # NoRes
        /\ eventAtReturn[c]
        /\ pc[c] = "done"
        /\ joined[c]
        /\ ~is_executed[c]

\* C12: is_executed is true only if the callback has already been invoked
\* for the call, and once true it never returns to false (so it goes from
\* false to true at most once).
C12_ExecutedAfterCallback ==
    /\ [](\A c \in Calls : is_executed[c] => Len(invocations[c]) >= 1)
    /\ [][\A c \in Calls : is_executed[c] => is_executed'[c]]_vars

C12_Witness ==
    \E c \in Calls :
        /\ is_executed[c]
        /\ Len(invocations[c]) = 1
        /\ pc[c] = "done"

\* C13: join() returns only after the thread has terminated, whether it
\* delivered the callback or was suppressed; on a Call whose thread was never
\* set join() can return at once; and once cancel() has been called on a
\* dispatched call, join() returns eventually.
C13_JoinAfterTermination ==
    /\ [](\A c \in Calls : (joined[c] /\ ThreadSet(c)) => Terminated(c))
    /\ [](\A c \in Calls : (~ThreadSet(c) /\ ~joined[c]) => ENABLED Join(c))
    /\ \A c \in Calls : (ThreadSet(c) /\ is_canceled[c]) ~> joined[c]

C13_Witness ==
    \E c \in Calls :
        /\ joined[c]
        /\ is_canceled[c]
        /\ pc[c] = "done"
        /\ invocations[c] = <<>>

\* C14: cancel() is idempotent: a cancel() after the first leaves the
\* cancellation event, is_canceled, is_executed and the callback invocations
\* of the call as they were.
C14_CancelIdempotent ==
    [][\A c \in Calls :
            (cancels[c] >= 1 /\ cancelPc'[c] # cancelPc[c])
                => /\ event'[c] = event[c]
                   /\ is_canceled'[c] = is_canceled[c]
                   /\ is_executed'[c] = is_executed[c]
                   /\ invocations'[c] = invocations[c]]_vars

C14_Witness ==
    \E c \in Calls :
        /\ cancels[c] = 2
        /\ event[c]
        /\ is_canceled[c]

\* C15 as stated: no exception other than a PubNubException raised during
\* the round trip comes to the callback or to a category; the thread ends
\* with the exception leaving run().
C15_Original ==
    \A c \in Calls :
        (transport[c] # NoTransport /\ transport[c].type = "raise" /\ pc[c] # "error")
            => /\ invocations[c] = <<>>
               /\ pc[c] = "crashed"

\* C15: an exception that is not of type PubNubException and reaches run()
\* (from pn_request, from processing the response or from the callback) is
\* not delivered through the callback: it leaves run(), and the error slot of
\* every invocation holds None or a PubNubException.
C15_ForeignExceptionsPropagate ==
    \A c \in Calls :
        /\ \A i \in 1..Len(invocations[c]) :
                /\ \/ invocations[c][i].error = NoErr
                   \/ invocations[c][i].error.type = "PubNubException"
                /\ invocations[c][i].does \in {"raise_other", "raise_pn_subclass"}
                        => /\ i = Len(invocations[c])
                           /\ pc[c] \in {"error", "crashed"}
                           /\ pc[c] = "crashed" => uncaught[c] \in {"CallbackError", "PubNubSubclass"}
        /\ (res[c] # NoRes /\ ~JsonParses(res[c].text) /\ pc[c] \notin {"check", "success"})
                => /\ invocations[c] = <<>>
                   /\ pc[c] = "done" \/ (pc[c] = "crashed" /\ uncaught[c] = "ValueError")
        /\ uncaught[c] # None => pc[c] = "crashed"

C15_Witness ==
    \E c \in Calls :
        /\ Len(invocations[c]) = 1
        /\ invocations[c][1].via = "success_callback"
        /\ invocations[c][1].does = "raise_pn_subclass"
        /\ pc[c] = "crashed"
        /\ uncaught[c] = "PubNubSubclass"

\* C16: a failure of the logging in pn_request does not change its outcome:
\* the round trip is made, a response the transport delivered is returned as
\* it is, and a transport failure raises the error of its kind.
C16_LoggingHarmless ==
    syncPc = "done"
        => /\ syncTransport # NoTransport
           /\ syncTransport.type = "response" => syncRes = syncTransport.res
           /\ syncTransport.type = "raise"
                => /\ syncOut.out = "raise_pn"
                   /\ syncOut.err.pn_error = ExceptClauseKind(syncTransport.exc)

\* C17: the ResponseInfo of every response delivered to the callback has the
\* status of the response, tls_enabled exactly for scheme https, the host of
\* the executed URL as origin, and as uuid / auth_key the first value of that
\* query parameter, None when it is missing or has no value.
FirstOfParameter(q, k) ==
    LET idx == {i \in 1..Len(q) : q[i][1] = k /\ q[i][2] # ""}
    IN  IF idx = {} THEN None
        ELSE q[CHOOSE i \in idx : \A j \in idx : i <= j][2]

C17_ResponseInfoFields ==
    \A c \in Calls : \A i \in SuccessInvocations(c) :
        LET info == invocations[c][i].response_info
            url == res[c].url
        IN  /\ info # NoInfo
            /\ info.status_code = res[c].status_code
            /\ info.tls_enabled <=> url.scheme = "https"
            /\ info.origin = url.hostname
            /\ info.uuid = FirstOfParameter(url.query, "uuid")
            /\ info.auth_key = FirstOfParameter(url.query, "auth_key")

C17_Witness ==
    \E c \in Calls :
        /\ 1 \in SuccessInvocations(c)
        /\ res[c].url.hostname = "localhost"
        /\ invocations[c][1].response_info.uuid = None
        /\ invocations[c][1].response_info.auth_key = "k1"
        /\ ~invocations[c][1].response_info.tls_enabled

\* C18: once cancel() has returned on a call whose callback has not started,
\* success_callback does not invoke the callback any more, under every
\* interleaving of the caller with the thread.
C18_NoCallbackAfterCancel ==
    [][\A c \in Calls :
            (cancels[c] >= 1 /\ invocations[c] = <<>>)
                => ~(/\ Len(invocations'[c]) = 1
                     /\ invocations'[c][1].via = "success_callback")]_vars

\* Two request_async calls side by side, each with its own Call, thread and
\* cancellation event, over one response and one transport failure
Pair == {1, 2}

PairOutcomes ==
    {PlainResponse, [type |-> "raise", res |-> NoRes, exc |-> "ConnectionError"]}

NextPair ==
    \E c \in Pair :
        \/ RequestAsync(c)
        \/ PnRequestBegin(c)
        \/ PnRequestEnd(c, PairOutcomes)
        \/ CheckCancelled(c)
        \/ SuccessCallback(c)
        \/ ErrorCallback(c)
        \/ ExecutedCb(c)
        \/ CancelSet(c)
        \/ CancelMark(c)
        \/ Join(c)

SpecPair == Init /\ [][NextPair]_vars

\* Everything that belongs to call c: its thread, its Call object, its event
CallState(c) ==
    <<pc[c], event[c], is_canceled[c], is_executed[c], res[c], err[c], uncaught[c],
      invocations[c], transport[c], cancelPc[c], cancels[c], joined[c]>>

\* C19: with two concurrent calls, a step of one call (its cancel() included)
\* changes nothing of the other call; the flags and the event of a call
\* change only in steps of its own cancel() and its own executed_cb(); and a
\* call whose response was dropped without a callback had its own cancel().
C19_CallsIndependent ==
    /\ [][\A c \in Calls :
            /\ CallState(c)' # CallState(c)
                    => \A d \in Calls \ {c} : CallState(d)' = CallState(d)
            /\ event'[c] # event[c]
                    => cancelPc[c] = "idle" /\ cancelPc'[c] = "set"
            /\ is_canceled'[c] # is_canceled[c]
                    => cancelPc[c] = "set" /\ cancelPc'[c] = "idle"
            /\ is_executed'[c] # is_executed[c]
                    => pc[c] = "executed_cb" /\ pc'[c] = "done"]_vars
    /\ [](\A c \in Calls :
            /\ (pc[c] = "done" /\ invocations[c] = <<>>)
                    => cancels[c] >= 1 \/ cancelPc[c] = "set"
            /\ \A i \in SuccessInvocations(c) :
                    /\ invocations[c][i].body = Json(res[c].text)
                    /\ invocations[c][i].response_info = ResponseInfo(res[c]))

C19_Witness ==
    /\ cancelPc[1] = "set"
    /\ event[1]
    /\ pc[1] = "inflight"
    /\ pc[2] = "executed_cb"
    /\ Len(invocations[2]) = 1
    /\ ~event[2]

====
